---- MODULE Spec2Model ----
(***************************************************************************)
(* State-machine model of show/interfaces/__init__.py (sonic-utilities):   *)
(* the "show interfaces" commands breakout, mpls, alias, description,      *)
(* status and tpid.  Every command is a short run-to-completion program;   *)
(* its inputs (arguments, naming mode, tables, files, databases) are       *)
(* chosen in the initial state and its handler runs in the steps below.    *)
(***************************************************************************)
EXTENDS Integers, Sequences, FiniteSets, TLC

(***************************************************************************)
(* Bounds of the model.                                                    *)
(***************************************************************************)
\* number of parent ports known to the capability documents
NumParents == 2
\* number of namespaces (ASICs) of a multi-ASIC platform
NumNs == 2
\* number of vendor aliases (etp1, etp2, ...) a port metadata table may use
NumAliases == 2

(***************************************************************************)
(* Strings.  A string that natsort has to order is kept as its text chunk  *)
(* and its number chunk ("Ethernet4" is text "Ethernet", number 4); a      *)
(* joined string is the sequence of its tokens.                            *)
(***************************************************************************)
Name(p, i) == [kind |-> "name", s |-> p, n |-> i]
Text(t) == [kind |-> "text", s |-> t, n |-> 0]
Comma == Text(",")
NoName == [kind |-> "none", s |-> "", n |-> 0]

Eth(i) == Name("Ethernet", i)

\* Position of a text chunk in code-point order (upper case before lower).
TextRank(t) ==
    CASE t = "Ethernet" -> 1
      [] t = "Loopback" -> 2
      [] t = "PortChannel" -> 3
      [] t = "etp" -> 4
      [] OTHER -> 5

\* natsort's order on names: text chunk first, then the number as a number.
NatLess(a, b) ==
    \/ TextRank(a.s) < TextRank(b.s)
    \/ TextRank(a.s) = TextRank(b.s) /\ a.n < b.n

NatMin(S) == CHOOSE x \in S : \A y \in S \ {x} : NatLess(x, y)

RECURSIVE natsorted(_)
natsorted(S) ==
    IF S = {} THEN <<>>
    ELSE LET m == NatMin(S) IN <<m>> \o natsorted(S \ {m})

\* ",".join(list)
RECURSIVE Join(_)
Join(list) ==
    IF Len(list) = 0 THEN <<>>
    ELSE IF Len(list) = 1 THEN <<list[1]>>
    ELSE <<list[1], Comma>> \o Join(Tail(list))

\* the entries of a comma-joined string (what a reader splits it into)
SplitComma(str) == SelectSeq(str, LAMBDA t : t # Comma)

Range(f) == {f[x] : x \in DOMAIN f}
EmptyDict == [x \in {} |-> <<>>]

\* dict.update(other): keys of other overwrite
DictUpdateKeepOld(d, other) ==
    [k \in DOMAIN d \cup DOMAIN other |-> IF k \in DOMAIN d THEN d[k] ELSE other[k]]
DictUpdate(d, other) ==
    [k \in DOMAIN d \cup DOMAIN other |-> IF k \in DOMAIN other THEN other[k] ELSE d[k]]
\* d[key] = value
DictSet(d, key, value) ==
    [k \in DOMAIN d \cup {key} |-> IF k = key THEN value ELSE d[k]]

(***************************************************************************)
(* How an invocation ends.                                                 *)
(*   ok           the handler returned (exit status 0)                     *)
(*   usage_error  ctx.fail(...): click's usage error (exit status 2)       *)
(*   abort        click.Abort (exit status 1)                              *)
(*   exception    an exception nobody catches (exit status 1)              *)
(***************************************************************************)
ExitCode(o) ==
    CASE o = "ok" -> 0
      [] o = "usage_error" -> 2
      [] o = "abort" -> 1
      [] o = "exception" -> 1
      [] OTHER -> -1

VARIABLES
    pc,              \* position of the running handler
    outcome,         \* "running" until the invocation ends
    stdout,          \* what click.echo / print wrote, in order
    failure,         \* the message of ctx.fail, "" when there is none
    calls,           \* calls made to collaborators, in order
    \* ---- environment shared by the commands
    naming_mode,     \* clicommon.get_interface_naming_mode()
    port_table,      \* the port metadata table: name -> alias, role
    is_multi_asic,   \* multi_asic.is_multi_asic()
    \* ---- command line
    command,
    arg_interfacename,
    arg_namespace,
    arg_display,
    \* ---- database tables read by 'neighbor expected' and 'tx_error'
    neighbor_tbl,    \* CONFIG_DB DEVICE_NEIGHBOR
    metadata_tbl,    \* CONFIG_DB DEVICE_NEIGHBOR_METADATA
    tx_state,        \* STATE_DB TX_ERR_STATE|<port>: tx_status
    tx_appl,         \* APPL_DB TX_ERR_APPL:<port>: tx_error_stati
    \* ---- mpls: locals
    display,
    interfacename,
    ns_list,         \* namespaces the for loop has not visited yet
    intfs_data,
    intf_found,
    queried,         \* namespaces queried so far, with the INTF_TABLE keys found
    conn_failed,     \* namespaces whose connection failed
    \* ---- breakout: inputs
    tbl_ok,          \* config_db.get_table('BREAKOUT_CFG') returns
    brkout_cfg,      \* the persisted BREAKOUT_CFG table
    platform_file,   \* the platform capability file
    hwsku_file,      \* the SKU default file (hwsku.json)
    no_speed,        \* lane offsets whose PORT entry has no 'speed'
    \* ---- breakout: locals
    cur_brkout_tbl,
    platform_dict,
    hwsku_dict,
    todo             \* keys the for loop has not visited yet

env_vars == <<naming_mode, port_table, is_multi_asic,
              command, arg_interfacename, arg_namespace, arg_display,
              neighbor_tbl, metadata_tbl, tx_state, tx_appl>>
mpls_vars == <<display, interfacename, ns_list, intfs_data, intf_found, queried,
               conn_failed>>
breakout_vars == <<tbl_ok, brkout_cfg, platform_file, hwsku_file, no_speed,
                   cur_brkout_tbl, platform_dict, hwsku_dict, todo>>
common_vars == <<pc, outcome, failure, stdout, calls>>
vars == <<common_vars, env_vars, breakout_vars, mpls_vars>>

\* a call to a collaborator: the operation, the namespace and the name given
Call(op, ns, name) == [op |-> op, ns |-> ns, name |-> name, cmd |-> <<>>, display |-> ""]
\* clicommon.run_command(cmd): cmd with its -i, -d and -n options
RunCommand(cmd, name, d, ns) ==
    [op |-> "run_command", ns |-> ns, name |-> name, cmd |-> cmd, display |-> d]

\* what is written to the terminal: a line of text, a JSON document, a table
Line(t) == [type |-> "text", text |-> t, body |-> <<>>]
Document(d) == [type |-> "json", text |-> "", body |-> d]
Table(rows) == [type |-> "table", text |-> "", body |-> rows]
Echo(line) == stdout' = Append(stdout, line)

NoNs == "<None>"
NoDisplay == "<None>"
\* values of the variables a command does not use
EnvUnused ==
    /\ naming_mode = "default"
    /\ port_table = EmptyDict
    /\ is_multi_asic = FALSE
    /\ arg_interfacename = NoName
    /\ arg_namespace = NoNs
    /\ arg_display = NoDisplay
TablesUnused ==
    /\ neighbor_tbl = [present |-> FALSE, rows |-> EmptyDict]
    /\ metadata_tbl = [present |-> FALSE, rows |-> EmptyDict]
    /\ tx_state = EmptyDict
    /\ tx_appl = EmptyDict
MplsUnused ==
    /\ display = NoDisplay
    /\ interfacename = NoName
    /\ ns_list = <<>>
    /\ intfs_data = EmptyDict
    /\ intf_found = FALSE
    /\ queried = <<>>
    /\ conn_failed = {}

(***************************************************************************)
(* show interfaces breakout                                                *)
(***************************************************************************)
LanesPerParent == 4
ParentPorts == {Eth(LanesPerParent * i) : i \in 0 .. NumParents - 1}

\* breakout modes a BREAKOUT_CFG entry may hold; "8x10G" is one the platform
\* file does not know
Modes == {"4x25G", "2x50G", "8x10G"}
NoField == "<no brkout_mode>"

\* entries of the two capability documents
PlainPlatformEntry ==
    ("lanes" :> <<Text("1,2,3,4")>>) @@ ("breakout_modes" :> <<Text("1x100G,2x50G,4x25G")>>)
CollidingPlatformEntry ==
    PlainPlatformEntry @@ ("default_brkout_mode" :> <<Text("platform")>>)
        @@ ("Current Breakout Mode" :> <<Text("platform")>>)
PlainHwskuEntry == ("default_brkout_mode" :> <<Text("1x100G")>>)
CollidingHwskuEntry ==
    PlainHwskuEntry @@ ("Current Breakout Mode" :> <<Text("sku")>>)
        @@ ("child ports" :> <<Text("sku")>>)

FileStatus == {"ok", "missing", "malformed", "no_interfaces"}
Files(entries) ==
    {[status |-> "ok", interfaces |-> [p \in ps |-> e]] :
        ps \in SUBSET ParentPorts, e \in entries}
    \cup {[status |-> s, interfaces |-> EmptyDict] : s \in FileStatus \ {"ok"}}

\* readJsonFile: the parsed document, or click.Abort
readJsonFile(file) ==
    IF file.status \in {"missing", "malformed"}
    THEN [abort |-> TRUE, result |-> file]
    ELSE [abort |-> FALSE, result |-> file]

\* portconfig.get_child_ports: the child ports of a parent under a mode
ChildCount(mode) ==
    CASE mode = "4x25G" -> 4
      [] mode = "2x50G" -> 2
      [] mode = "1x100G" -> 1
      [] OTHER -> 0
get_child_ports(port, mode) ==
    LET c == ChildCount(mode) IN
    IF c = 0 THEN {}
    ELSE {Eth(port.n + i * (LanesPerParent \div c)) : i \in 0 .. c - 1}

\* config_db.get_entry('PORT', port).get('speed'): Mb/s, or None
NoSpeed == [has |-> FALSE, mbps |-> 0]
Mbps(v) == [has |-> TRUE, mbps |-> v]
PortSpeed(port) ==
    LET off == port.n % LanesPerParent IN
    IF off \in no_speed THEN NoSpeed
    ELSE CASE off = 0 -> Mbps(25000)
           [] off = 1 -> Mbps(2500)
           [] off = 2 -> Mbps(50000)
           [] OTHER -> Mbps(100000)

\* str(int(speed)//1000)+'G'
FormatSpeedRounded(speed) ==
    [kind |-> "gig", s |-> "G", n |-> (speed.mbps + 500) \div 1000]
FormatSpeed(speed) == [kind |-> "gig", s |-> "G", n |-> speed.mbps \div 1000]

\* lines 223-229: the children that have a speed, and their speeds
RECURSIVE ChildListsPadded(_)
ChildListsPadded(child_ports) ==
    IF child_ports = <<>> THEN [children |-> <<>>, speeds |-> <<>>]
    ELSE LET rest == ChildListsPadded(Tail(child_ports))
             port == Head(child_ports)
             speed == PortSpeed(port)
         IN [children |-> <<port>> \o rest.children,
             speeds |-> IF speed.has THEN <<FormatSpeed(speed)>> \o rest.speeds
                        ELSE rest.speeds]
RECURSIVE ChildLists(_)
ChildLists(child_ports) ==
    IF child_ports = <<>> THEN [children |-> <<>>, speeds |-> <<>>]
    ELSE LET rest == ChildLists(Tail(child_ports))
             port == Head(child_ports)
             speed == PortSpeed(port)
         IN IF speed.has
            THEN [children |-> <<port>> \o rest.children,
                  speeds |-> <<FormatSpeed(speed)>> \o rest.speeds]
            ELSE rest

\* line 201: a capability document without interfaces
CannotLoadBothEmpty(pd, hd) == DOMAIN pd = {} /\ DOMAIN hd = {}
CannotLoad(pd, hd) == DOMAIN pd = {} \/ DOMAIN hd = {}

\* lines 235-236: the document, keys in natural order
Parsed(pd) ==
    LET keys == natsorted(DOMAIN pd) IN
    [i \in 1 .. Len(keys) |-> [key |-> keys[i], value |-> pd[keys[i]]]]

BreakoutInit ==
    /\ tbl_ok \in BOOLEAN
    /\ brkout_cfg \in UNION {[ps -> Modes \cup {NoField}] : ps \in SUBSET ParentPorts}
    /\ \E style \in {"plain", "colliding"} :
        /\ platform_file \in Files(IF style = "plain" THEN {PlainPlatformEntry}
                                   ELSE {CollidingPlatformEntry})
        /\ hwsku_file \in Files(IF style = "plain" THEN {PlainHwskuEntry}
                                ELSE {CollidingHwskuEntry})
    /\ no_speed \in SUBSET (0 .. LanesPerParent - 1)
    /\ cur_brkout_tbl = EmptyDict
    /\ platform_dict = EmptyDict
    /\ hwsku_dict = EmptyDict
    /\ todo = {}
    /\ pc = "breakout"
    /\ outcome = "running"
    /\ failure = ""
    /\ stdout = <<>>
    /\ calls = <<>>
    /\ command = "breakout"
    /\ EnvUnused
    /\ MplsUnused
    /\ TablesUnused

End(o) == /\ outcome' = o
          /\ pc' = "done"
          /\ failure' = ""
\* ctx.fail(message)
FailAbort(message) == /\ outcome' = "abort"
                      /\ pc' = "done"
                      /\ failure' = message
Fail(message) == /\ outcome' = "usage_error"
                 /\ pc' = "done"
                 /\ failure' = message

\* lines 180-203: read the table and the two files
BreakoutLoad ==
    /\ pc = "breakout"
    /\ calls' = Append(calls, Call("get_table", "", NoName))
    /\ IF ~tbl_ok
       THEN /\ Echo(Line("Breakout table is not present in Config DB"))
            /\ End("abort")
            /\ UNCHANGED <<cur_brkout_tbl, platform_dict, hwsku_dict, todo>>
       ELSE
       LET p == readJsonFile(platform_file)
           h == readJsonFile(hwsku_file)
       IN
       /\ cur_brkout_tbl' = brkout_cfg
       /\ IF p.abort
          THEN /\ Echo(Line("platform file error"))
               /\ End("abort")
               /\ UNCHANGED <<platform_dict, hwsku_dict, todo>>
          ELSE IF p.result.status = "no_interfaces"
          THEN /\ End("exception")
               /\ UNCHANGED <<stdout, platform_dict, hwsku_dict, todo>>
          ELSE IF h.abort
          THEN /\ Echo(Line("hwsku file error"))
               /\ End("abort")
               /\ platform_dict' = p.result.interfaces
               /\ UNCHANGED <<hwsku_dict, todo>>
          ELSE IF h.result.status = "no_interfaces"
          THEN /\ End("exception")
               /\ platform_dict' = p.result.interfaces
               /\ UNCHANGED <<stdout, hwsku_dict, todo>>
          ELSE
          /\ platform_dict' = p.result.interfaces
          /\ hwsku_dict' = h.result.interfaces
          /\ IF CannotLoad(p.result.interfaces, h.result.interfaces)
             THEN /\ Echo(Line("Can not load port config"))
                  /\ End("abort")
                  /\ todo' = {}
             ELSE /\ pc' = "loop"
                  /\ todo' = DOMAIN p.result.interfaces
                  /\ UNCHANGED <<stdout, outcome, failure>>
    /\ UNCHANGED <<tbl_ok, brkout_cfg, platform_file, hwsku_file, no_speed>>
    /\ UNCHANGED <<env_vars, mpls_vars>>

\* lines 205-232: one iteration of the loop over platform_dict
BreakoutPort(port_name) ==
    /\ pc = "loop"
    /\ port_name \in todo
    /\ todo' = todo \ {port_name}
    /\ IF port_name \notin DOMAIN cur_brkout_tbl
       THEN UNCHANGED <<pc, outcome, failure, stdout, calls, platform_dict>>
       ELSE IF cur_brkout_tbl[port_name] = NoField
       THEN /\ End("exception")
            /\ UNCHANGED <<stdout, calls, platform_dict>>
       ELSE IF port_name \notin DOMAIN hwsku_dict
       THEN /\ End("exception")
            /\ UNCHANGED <<stdout, calls, platform_dict>>
       ELSE
       LET cur_brkout_mode == cur_brkout_tbl[port_name]
           merged == DictSet(DictUpdate(platform_dict[port_name], hwsku_dict[port_name]),
                             "Current Breakout Mode", <<Text(cur_brkout_mode)>>)
           child_port_dict == get_child_ports(port_name, cur_brkout_mode)
           child_ports == natsorted(child_port_dict)
           lists == ChildLists(child_ports)
       IN
       /\ calls' = Append(calls, Call("get_child_ports", "", port_name))
       /\ IF child_port_dict = {}
          THEN /\ Echo(Line("Cannot find ports from platform file"))
               /\ End("abort")
               /\ platform_dict' = [platform_dict EXCEPT ![port_name] = merged]
          ELSE /\ platform_dict' =
                    [platform_dict EXCEPT ![port_name] =
                        DictSet(DictSet(merged, "child ports", Join(lists.children)),
                                "child port speeds", Join(lists.speeds))]
               /\ UNCHANGED <<pc, outcome, failure, stdout>>
    /\ UNCHANGED <<tbl_ok, brkout_cfg, platform_file, hwsku_file, no_speed,
                   cur_brkout_tbl, hwsku_dict>>
    /\ UNCHANGED <<env_vars, mpls_vars>>

\* lines 234-236: print the document
BreakoutEmit ==
    /\ pc = "loop"
    /\ todo = {}
    /\ Echo(Document(Parsed(platform_dict)))
    /\ End("ok")
    /\ UNCHANGED <<calls, breakout_vars, env_vars, mpls_vars>>

BreakoutNext ==
    \/ BreakoutLoad
    \/ \E port_name \in ParentPorts : BreakoutPort(port_name)
    \/ BreakoutEmit

SpecBreakout == BreakoutInit /\ [][BreakoutNext]_vars

(***************************************************************************)
(* Properties of show interfaces breakout                                  *)
(***************************************************************************)
Documents == {i \in 1 .. Len(stdout) : stdout[i].type = "json"}
BreakoutDone == pc = "done" /\ outcome = "ok"
\* the document printed by a run that ended well
Emitted == stdout[Len(stdout)].body
EmittedKeys == {Emitted[i].key : i \in 1 .. Len(Emitted)}
EmittedEntry(port) ==
    LET i == CHOOSE j \in 1 .. Len(Emitted) : Emitted[j].key = port IN Emitted[i].value

\* C1: every parent port of the printed document is a key of the persisted
\* BREAKOUT_CFG table; a port of the platform capability document that the
\* table does not hold is left out of the document.
C1_OutputKeysSubsetOfTable ==
    BreakoutDone => EmittedKeys \subseteq DOMAIN brkout_cfg

\* the children of a retained port that have a configured speed, in order
ChildrenWithSpeed(port) ==
    SelectSeq(natsorted(get_child_ports(port, brkout_cfg[port])),
              LAMBDA c : PortSpeed(c).has)

\* C5: for every parent port whose child data was derived, 'child ports' and
\* 'child port speeds' have the same number of entries, entry i of the
\* speeds is the speed of child i, and the children listed are exactly the
\* derived children that have a configured speed.
C5_ChildListsAligned ==
    BreakoutDone =>
        \A port \in EmittedKeys \cap DOMAIN brkout_cfg :
            LET children == SplitComma(EmittedEntry(port)["child ports"])
                speeds == SplitComma(EmittedEntry(port)["child port speeds"])
            IN /\ Len(children) = Len(speeds)
               /\ children = ChildrenWithSpeed(port)
               /\ \A i \in 1 .. Len(children) :
                     /\ PortSpeed(children[i]).has
                     /\ speeds[i] = FormatSpeed(PortSpeed(children[i]))

C5_Witness ==
    /\ BreakoutDone
    /\ \E port \in EmittedKeys \cap DOMAIN brkout_cfg :
          LET children == SplitComma(EmittedEntry(port)["child ports"]) IN
          /\ Len(children) >= 2
          /\ Len(children) < Cardinality(get_child_ports(port, brkout_cfg[port]))

\* a capability document that is missing, malformed or without interfaces
Unusable(file) == file.status # "ok" \/ DOMAIN file.interfaces = {}

\* C10: when the platform capability document or the SKU default document
\* is missing, malformed or has an empty 'interfaces' mapping, no breakout
\* document is ever printed and the run ends as a fatal failure with a
\* non-zero exit status (click.Abort unless the 'interfaces' key itself is
\* missing), before any port is examined.
C10_UnusableDocumentIsFatal ==
    (Unusable(platform_file) \/ Unusable(hwsku_file)) =>
        /\ Documents = {}
        /\ pc \in {"breakout", "done"}
        /\ pc = "done" =>
              /\ outcome \in {"abort", "exception"}
              /\ ExitCode(outcome) # 0
              /\ (tbl_ok /\ "no_interfaces" \notin {platform_file.status, hwsku_file.status}
                    => outcome = "abort")

C10_Witness ==
    /\ pc = "done"
    /\ tbl_ok
    /\ ~Unusable(platform_file)
    /\ hwsku_file.status = "ok" /\ DOMAIN hwsku_file.interfaces = {}
    /\ DOMAIN brkout_cfg = {}
    /\ outcome = "abort"

\* the fields the loop writes itself
StampedKeys == {"Current Breakout Mode", "child ports", "child port speeds"}
\* the parent ports of the printed document the loop processed
Retained == EmittedKeys \cap DOMAIN brkout_cfg

\* C13: for every retained parent port the printed entry is the platform
\* capability entry overlaid with the SKU default entry (on a key present
\* in both the SKU value is printed), and its 'Current Breakout Mode' is
\* the mode stored for the port in BREAKOUT_CFG, whatever a same-named
\* field of either capability document holds.
C13_SkuOverlaysPlatform ==
    BreakoutDone =>
        \A port \in Retained :
            LET entry == EmittedEntry(port)
                platform == platform_file.interfaces[port]
                sku == hwsku_file.interfaces[port]
            IN /\ DOMAIN entry = DOMAIN platform \cup DOMAIN sku \cup StampedKeys
               /\ \A k \in DOMAIN entry \ StampedKeys :
                     entry[k] = IF k \in DOMAIN sku THEN sku[k] ELSE platform[k]
               /\ entry["Current Breakout Mode"] = <<Text(brkout_cfg[port])>>

C13_Witness ==
    /\ BreakoutDone
    /\ \E port \in Retained :
          LET platform == platform_file.interfaces[port]
              sku == hwsku_file.interfaces[port]
          IN /\ "Current Breakout Mode" \in DOMAIN platform \cap DOMAIN sku
             /\ "default_brkout_mode" \in DOMAIN platform \cap DOMAIN sku
             /\ platform["default_brkout_mode"] # sku["default_brkout_mode"]
             /\ EmittedEntry(port)["default_brkout_mode"] = sku["default_brkout_mode"]
             /\ EmittedEntry(port)["Current Breakout Mode"] = <<Text("2x50G")>>

\* C14: every entry of a 'child port speeds' list is the configured speed
\* of the child at the same position, in whole gigabits (the Mb/s value
\* divided by 1000, remainder dropped) followed by 'G'.
C14_SpeedsInWholeGigabits ==
    BreakoutDone =>
        \A port \in Retained :
            LET children == ChildrenWithSpeed(port)
                speeds == SplitComma(EmittedEntry(port)["child port speeds"])
            IN /\ Len(speeds) = Len(children)
               /\ \A i \in 1 .. Len(speeds) :
                     LET mbps == PortSpeed(children[i]).mbps IN
                     /\ speeds[i].kind = "gig"
                     /\ speeds[i].s = "G"
                     /\ speeds[i].n * 1000 <= mbps
                     /\ mbps < (speeds[i].n + 1) * 1000

C14_Witness ==
    /\ BreakoutDone
    /\ \E port \in Retained :
          LET children == ChildrenWithSpeed(port)
              speeds == SplitComma(EmittedEntry(port)["child port speeds"])
          IN \E i \in 1 .. Len(speeds) :
                /\ PortSpeed(children[i]).mbps % 1000 # 0
                /\ speeds[i].n * 1000 < PortSpeed(children[i]).mbps

\* child ports can be derived for every port of the platform document that
\* BREAKOUT_CFG holds with a mode
ChildPortsDerivable ==
    \A port \in DOMAIN platform_file.interfaces \cap DOMAIN brkout_cfg :
        brkout_cfg[port] # NoField => get_child_ports(port, brkout_cfg[port]) # {}

\* C17: the breakout summary fails in the declared ways only: when
\* BREAKOUT_CFG is readable, both capability documents load with non-empty
\* 'interfaces' mappings and child ports can be derived for every retained
\* port, the run completes and prints the document, also when a retained
\* port has no entry in the SKU default document or its persisted entry has
\* no mode field.
C17_NoUndeclaredFailure ==
    (/\ pc = "done"
     /\ tbl_ok
     /\ ~Unusable(platform_file)
     /\ ~Unusable(hwsku_file)
     /\ ChildPortsDerivable) =>
        /\ outcome = "ok"
        /\ Documents # {}

(***************************************************************************)
(* Interface names and aliases                                             *)
(***************************************************************************)
Loopback0 == Name("Loopback", 0)
PortChannel1 == Name("PortChannel", 1)
Unknown == Name("nosuch", 9)
Etp(i) == Name("etp", i)

\* an entry of the port metadata table; alias NoName: no 'alias' attribute
PortEntry(alias, role) == [alias |-> alias, role |-> role]

\* the alias of a port of the table: its own name when it has no 'alias'
AliasOf(port_name) ==
    IF port_table[port_name].alias = NoName THEN port_name
    ELSE port_table[port_name].alias

\* InterfaceAliasConverter.alias_to_name: the port of that alias, and the
\* argument itself when no port has it
alias_to_name(alias) ==
    IF \E port_name \in DOMAIN port_table : AliasOf(port_name) = alias
    THEN CHOOSE port_name \in DOMAIN port_table : AliasOf(port_name) = alias
    ELSE alias

\* InterfaceAliasConverter.name_to_alias
name_to_alias(name) ==
    IF name \in DOMAIN port_table THEN AliasOf(name) ELSE name

\* lines 37-48; fail: ctx.fail was called
try_convert_no_check(name) ==
    IF naming_mode = "alias"
    THEN [fail |-> FALSE, name |-> alias_to_name(name)]
    ELSE [fail |-> FALSE, name |-> name]
try_convert_interfacename_from_alias(name) ==
    IF naming_mode = "alias"
    THEN LET converted == alias_to_name(name) IN
         IF converted = name
         THEN [fail |-> TRUE, name |-> name]
         ELSE [fail |-> FALSE, name |-> converted]
    ELSE [fail |-> FALSE, name |-> name]

CannotFindAlias == "cannot find interface name for alias"
DoesNotExist == "interface does not exist"
InvalidInterfaceName == "Invalid interface name"

(***************************************************************************)
(* show interfaces mpls                                                    *)
(***************************************************************************)
DEFAULT_NAMESPACE == ""
AsicNames == <<"asic0", "asic1", "asic2", "asic3">>
Namespaces == {AsicNames[i] : i \in 1 .. NumNs}
\* asic0 and asic2 are front-end namespaces, asic1 and asic3 back-end ones
FrontNs == SelectSeq(SubSeq(AsicNames, 1, NumNs), LAMBDA ns : ns \in {"asic0", "asic2"})
BackNs == SelectSeq(SubSeq(AsicNames, 1, NumNs), LAMBDA ns : ns \in {"asic1", "asic3"})

\* MultiAsic.get_ns_list_based_on_options
get_ns_list_based_on_options(display_option, namespace_option) ==
    IF ~is_multi_asic THEN <<DEFAULT_NAMESPACE>>
    ELSE IF namespace_option = NoNs
    THEN IF display_option = "all" THEN FrontNs \o BackNs ELSE FrontNs
    ELSE <<namespace_option>>

\* multi_asic.is_port_internal / is_port_channel_internal
is_port_internal(ifname, ns) ==
    ifname \in DOMAIN port_table /\ port_table[ifname].role = "Int"
is_port_channel_internal(ifname, ns) == ns \in Range(BackNs)

\* the interfaces an INTF_TABLE may hold
Interfaces == {Eth(0), Eth(4), Loopback0, PortChannel1}
\* a key of INTF_TABLE: "INTF_TABLE:<ifname>" has 2 tokens, a key with an
\* address ("INTF_TABLE:<ifname>:<prefix>") more
Key(ifname, tokens) == [ifname |-> ifname, tokens |-> tokens]
\* every interface of a database has an address key beside its own key
KeysOf(intfs) == {Key(i, 2) : i \in intfs} \cup {Key(i, 3) : i \in intfs}
                    \cup {Key(Loopback0, 3)}

\* appl_db.get_all(APPL_DB, key): the 'mpls' field, "" when there is none
MplsField(ns, key) ==
    IF key.tokens # 2 THEN ""
    ELSE CASE key.ifname.s = "Ethernet" -> IF ns \in Range(BackNs) THEN "disable" ELSE "enable"
           [] key.ifname.s = "PortChannel" -> "enable"
           [] OTHER -> ""

\* lines 342-348: the display option on a single-ASIC platform
SingleAsicDisplayAny(d) == [error |-> FALSE, display |-> NoDisplay]
SingleAsicDisplay(d) ==
    IF d = "frontend" \/ d = "all" \/ d = NoDisplay
    THEN [error |-> FALSE, display |-> NoDisplay]
    ELSE [error |-> TRUE, display |-> d]

\* lines 378-386: the entry is skipped by the visibility filter
FilteredOutAlways(d, ifname, ns) ==
    \/ ifname.s = "Loopback"
    \/ ifname.s = "Ethernet" /\ is_port_internal(ifname, ns)
    \/ ifname.s = "PortChannel" /\ is_port_channel_internal(ifname, ns)
FilteredOut(d, ifname, ns) ==
    /\ d # "all"
    /\ \/ ifname.s = "Loopback"
       \/ ifname.s = "Ethernet" /\ is_port_internal(ifname, ns)
       \/ ifname.s = "PortChannel" /\ is_port_channel_internal(ifname, ns)

\* lines 365-376: the keys the loop does not skip before the filter
SelectedKeys(keys, target) ==
    {k \in keys : k.tokens = 2 /\ (target # NoName => target = k.ifname)}

\* lines 389-394: intfs_data after the keys of one namespace
Collect(data, ns, keys) ==
    [ifname \in DOMAIN data \cup {k.ifname : k \in keys} |->
        IF \E k \in keys : k.ifname = ifname
        THEN LET k == CHOOSE k \in keys : k.ifname = ifname
                 mpls == MplsField(ns, k)
             IN IF mpls = "" \/ mpls = "disable" THEN "disable" ELSE mpls
        ELSE data[ifname]]

\* lines 404-409: the rows of the table
BodySortedByAlias(data) ==
    LET shown == {IF naming_mode = "alias" THEN name_to_alias(i) ELSE i : i \in DOMAIN data}
        names == natsorted(shown)
    IN [i \in 1 .. Len(names) |->
          LET intf_name == IF naming_mode = "alias" THEN alias_to_name(names[i]) ELSE names[i]
          IN <<names[i], data[intf_name]>>]
Body(data) ==
    LET names == natsorted(DOMAIN data) IN
    [i \in 1 .. Len(names) |->
        IF naming_mode = "alias"
        THEN <<name_to_alias(names[i]), data[names[i]]>>
        ELSE <<names[i], data[names[i]]>>]

\* port metadata tables: both Ethernet ports have an alias, in the order of
\* the names or in the opposite order; Ethernet4 is internal or not
MplsPortTables ==
    {(Eth(0) :> PortEntry(Etp(a), "Ext")) @@ (Eth(4) :> PortEntry(Etp(3 - a), role)) :
        a \in {1, 2}, role \in {"Ext", "Int"}}

MplsTargets == {NoName, Eth(0), Eth(4), Loopback0, Etp(1), Unknown}

MplsInit ==
    /\ command = "mpls"
    /\ naming_mode \in {"default", "alias"}
    /\ port_table \in MplsPortTables
    /\ is_multi_asic \in BOOLEAN
    /\ arg_interfacename \in MplsTargets
    /\ arg_namespace \in IF is_multi_asic THEN {NoNs, "asic1"} ELSE {NoNs}
    /\ arg_display \in {NoDisplay, "all", "frontend", "bogus"}
    /\ MplsUnused
    /\ TablesUnused
    /\ pc = "mpls"
    /\ outcome = "running"
    /\ failure = ""
    /\ stdout = <<>>
    /\ calls = <<>>
    /\ tbl_ok = FALSE
    /\ brkout_cfg = EmptyDict
    /\ platform_file = [status |-> "missing", interfaces |-> EmptyDict]
    /\ hwsku_file = [status |-> "missing", interfaces |-> EmptyDict]
    /\ no_speed = {}
    /\ cur_brkout_tbl = EmptyDict
    /\ platform_dict = EmptyDict
    /\ hwsku_dict = EmptyDict
    /\ todo = {}

\* lines 342-354
MplsStart ==
    /\ pc = "mpls"
    /\ LET single == IF is_multi_asic THEN [error |-> FALSE, display |-> arg_display]
                     ELSE SingleAsicDisplay(arg_display)
       IN
       IF single.error
       THEN /\ Echo(Line("Error: Invalid display option command for single asic"))
            /\ End("ok")
            /\ UNCHANGED <<calls, mpls_vars>>
       ELSE
       LET d == IF arg_interfacename # NoName THEN "all" ELSE single.display IN
       /\ display' = d
       /\ ns_list' = get_ns_list_based_on_options(d, arg_namespace)
       /\ calls' = Append(calls, Call("get_ns_list_based_on_options", "", NoName))
       /\ interfacename' = arg_interfacename
       /\ intfs_data' = EmptyDict
       /\ intf_found' = FALSE
       /\ pc' = "mpls_loop"
       /\ UNCHANGED <<outcome, failure, stdout, queried, conn_failed>>
    /\ UNCHANGED <<env_vars, breakout_vars>>

\* line 358: connect_to_all_dbs_for_ns raises and nothing catches it
ConnectErrorIgnored == UNCHANGED <<pc, outcome, failure>>
ConnectError == End("exception")

\* lines 356-394: one iteration of the loop over the namespaces; the
\* connection may fail, and the database holds any set of interfaces
MplsNamespace(connected, intfs) ==
    /\ pc = "mpls_loop"
    /\ ns_list # <<>>
    /\ LET ns == Head(ns_list)
           conv == try_convert_interfacename_from_alias(interfacename)
           keys == KeysOf(intfs)
           selected == SelectedKeys(keys, conv.name)
           kept == {k \in selected : ~FilteredOut(display, k.ifname, ns)}
       IN
       /\ ns_list' = Tail(ns_list)
       /\ IF ~connected
          THEN /\ calls' = Append(calls, Call("connect_to_all_dbs_for_ns", ns, NoName))
               /\ conn_failed' = conn_failed \cup {ns}
               /\ ConnectError
               /\ UNCHANGED <<stdout, display, interfacename, intfs_data, intf_found, queried>>
          ELSE IF interfacename # NoName /\ conv.fail
          THEN /\ calls' = Append(calls, Call("connect_to_all_dbs_for_ns", ns, NoName))
               /\ Fail(CannotFindAlias)
               /\ UNCHANGED <<stdout, display, interfacename, intfs_data, intf_found, queried,
                              conn_failed>>
          ELSE
          /\ calls' = calls \o <<Call("connect_to_all_dbs_for_ns", ns, NoName),
                                 Call("keys", ns, conv.name)>>
          /\ interfacename' = conv.name
          /\ queried' = Append(queried, [ns |-> ns, keys |-> keys])
          /\ intf_found' = (intf_found \/ (conv.name # NoName /\ selected # {}))
          /\ intfs_data' = Collect(intfs_data, ns, kept)
          /\ UNCHANGED <<pc, outcome, failure, stdout, display, conn_failed>>
    /\ UNCHANGED <<env_vars, breakout_vars>>

\* lines 396-411
MplsFinish ==
    /\ pc = "mpls_loop"
    /\ ns_list = <<>>
    /\ IF interfacename # NoName /\ ~intf_found
       THEN /\ Fail(DoesNotExist)
            /\ UNCHANGED stdout
       ELSE /\ Echo(Table(Body(intfs_data)))
            /\ End("ok")
    /\ UNCHANGED <<calls, mpls_vars, env_vars, breakout_vars>>

MplsNext ==
    \/ MplsStart
    \/ \E connected \in BOOLEAN, intfs \in SUBSET Interfaces : MplsNamespace(connected, intfs)
    \/ MplsFinish

SpecMpls == MplsInit /\ [][MplsNext]_vars

(***************************************************************************)
(* Properties of show interfaces mpls                                      *)
(***************************************************************************)
MplsDone == command = "mpls" /\ pc = "done"
CallsTo(op) == {i \in 1 .. Len(calls) : calls[i].op = op}
\* the rows of the table printed by a run that ended well
Rows == stdout[Len(stdout)].body
MplsPrinted == MplsDone /\ outcome = "ok" /\ stdout # <<>> /\ stdout[Len(stdout)].type = "table"
\* the names the rows show
Shown == {Rows[i][1] : i \in 1 .. Len(Rows)}
\* the name under which an interface is displayed
DisplayName(ifname) == IF naming_mode = "alias" THEN name_to_alias(ifname) ELSE ifname
QueriedNs == [i \in 1 .. Len(queried) |-> queried[i].ns]
\* the target is an interface the naming mode can resolve
ResolvableTarget ==
    /\ arg_interfacename # NoName
    /\ naming_mode = "alias" =>
          \E port_name \in DOMAIN port_table : AliasOf(port_name) = arg_interfacename
CanonicalTarget ==
    IF naming_mode = "alias" THEN alias_to_name(arg_interfacename) ELSE arg_interfacename
TargetSeen == \E i \in 1 .. Len(queried) : Key(CanonicalTarget, 2) \in queried[i].keys

\* C2: with a target interface, in either naming mode and for any number of
\* namespaces: the only failure is 'interface does not exist', raised after
\* every enumerated namespace was queried and none holds the target; and a
\* target that one of the queried namespaces holds gives a successful run
\* with exactly one row, the target's.
C2_NotFoundOnlyAfterAllNamespaces ==
    (command = "mpls" /\ ResolvableTarget) =>
        /\ outcome = "usage_error" =>
              /\ failure = DoesNotExist
              /\ ns_list = <<>>
              /\ QueriedNs = get_ns_list_based_on_options("all", arg_namespace)
              /\ ~TargetSeen
        /\ (pc = "done" /\ outcome # "exception" /\ TargetSeen) =>
              /\ MplsPrinted
              /\ Len(Rows) = 1
              /\ Rows[1][1] = DisplayName(CanonicalTarget)

\* C11: when the connection to an enumerated namespace fails, the run ends
\* there with an error and a non-zero exit status: the failed connection is
\* the last call made and is made once (no retry, no later namespace), and
\* no table is printed, whatever was collected from earlier namespaces.
C11_ConnectFailureIsFatal ==
    (command = "mpls" /\ conn_failed # {}) =>
        /\ pc = "done"
        /\ outcome = "exception"
        /\ ExitCode(outcome) # 0
        /\ stdout = <<>>
        /\ \E ns \in conn_failed :
              /\ conn_failed = {ns}
              /\ calls[Len(calls)] = Call("connect_to_all_dbs_for_ns", ns, NoName)
              /\ Cardinality({i \in CallsTo("connect_to_all_dbs_for_ns") : calls[i].ns = ns}) = 1

C11_Witness ==
    /\ command = "mpls"
    /\ conn_failed = {"asic1"}
    /\ Len(queried) = 1
    /\ DOMAIN intfs_data # {}
    /\ pc = "done"

\* C18: with a target interface the display scope is 'all' from the moment
\* the namespaces are enumerated, on single- and multi-ASIC platforms, so
\* the visibility filter never drops the target: a target (a Loopback or an
\* internal port included) that a queried namespace holds is reported as
\* found, and the run prints a table with the target's row.
C18_TargetNeverFilteredOut ==
    (command = "mpls" /\ arg_interfacename # NoName) =>
        /\ calls # <<>> => display = "all"
        /\ (pc = "done" /\ ResolvableTarget /\ conn_failed = {} /\ TargetSeen) =>
              /\ MplsPrinted
              /\ DisplayName(CanonicalTarget) \in Shown

\* C3: on a single-ASIC platform, a display option other than 'frontend',
\* 'all' or none never leads to a namespace enumeration or a connection: no
\* collaborator is called in any state of the run.
InvalidSingleAsicDisplay ==
    command = "mpls" /\ ~is_multi_asic /\ arg_display \notin {"frontend", "all", NoDisplay}
C3_NoNamespaceQueryOnInvalidDisplay ==
    InvalidSingleAsicDisplay =>
        /\ calls = <<>>
        /\ queried = <<>>
        /\ pc \in {"mpls", "done"}

C3_Witness ==
    /\ InvalidSingleAsicDisplay
    /\ pc = "done"
    /\ stdout = <<Line("Error: Invalid display option command for single asic")>>

\* C4: on a single-ASIC platform, a display option the topology does not
\* allow ends the run with a usage error and a non-zero exit status.
C4_InvalidDisplayExitsNonZero ==
    (InvalidSingleAsicDisplay /\ pc = "done") =>
        /\ outcome = "usage_error"
        /\ ExitCode(outcome) # 0

\* the interfaces with a two-token INTF_TABLE entry in a queried namespace
TwoTokenIntfs ==
    {k.ifname : k \in {k \in UNION {queried[i].keys : i \in 1 .. Len(queried)} : k.tokens = 2}}

\* C6 as the spec states it: with display 'all' and no target, on every
\* topology, every two-token INTF_TABLE entry of every queried namespace is
\* in the table.
C6_AllScopeShowsEverything ==
    (MplsPrinted /\ arg_display = "all" /\ arg_interfacename = NoName) =>
        \A ifname \in TwoTokenIntfs : DisplayName(ifname) \in Shown

\* C6 amended: with display 'all' and no target on a multi-ASIC platform no
\* entry is filtered: every two-token INTF_TABLE entry of every queried
\* namespace is in the table.  On a single-ASIC platform 'all' is replaced
\* by the default scope and the filter applies: exactly the entries that
\* are not Loopback and not internal are in the table.
C6_AllScopeUnfilteredOnMultiAsic ==
    (MplsPrinted /\ arg_display = "all" /\ arg_interfacename = NoName) =>
        IF is_multi_asic
        THEN Shown = {DisplayName(ifname) : ifname \in TwoTokenIntfs}
        ELSE Shown = {DisplayName(ifname) : ifname \in
                        {i \in TwoTokenIntfs :
                            /\ i.s # "Loopback"
                            /\ ~(i.s = "Ethernet" /\ is_port_internal(i, DEFAULT_NAMESPACE))}}

C6_Witness ==
    /\ MplsPrinted /\ arg_display = "all" /\ arg_interfacename = NoName
    /\ is_multi_asic
    /\ Len(queried) >= 2
    /\ {Loopback0, Eth(4), PortChannel1} \subseteq TwoTokenIntfs
    /\ is_port_internal(Eth(4), "asic0")
    /\ DisplayName(Loopback0) \in Shown

\* C7 as the spec states it: the rows are in natural ascending order of the
\* name they show (the alias in alias mode).
C7_RowsSortedByDisplayedName ==
    MplsPrinted => \A i, j \in 1 .. Len(Rows) : i < j => NatLess(Rows[i][1], Rows[j][1])

\* the canonical name of a displayed name
CanonicalOf(shown) == IF naming_mode = "alias" THEN alias_to_name(shown) ELSE shown

\* C7 amended: in both naming modes the rows are in natural ascending order
\* of the canonical interface name; in alias mode each row shows the alias
\* of the canonical name at that position.
C7_RowsSortedByCanonicalName ==
    MplsPrinted =>
        \A i, j \in 1 .. Len(Rows) :
            i < j => NatLess(CanonicalOf(Rows[i][1]), CanonicalOf(Rows[j][1]))

C7_Witness ==
    /\ MplsPrinted
    /\ naming_mode = "alias"
    /\ Len(Rows) >= 3
    /\ \E i \in 1 .. Len(Rows) - 1 : Rows[i][1] = Etp(2) /\ Rows[i + 1][1] = Etp(1)

(***************************************************************************)
(* show interfaces alias / description / status / tpid                     *)
(***************************************************************************)
CmdPorts == {Eth(0), Eth(4)}
\* the 'alias' attribute of a port: none, a vendor alias, or its own name
AliasChoices(port_name) == {NoName, port_name} \cup {Etp(i) : i \in 1 .. NumAliases}
\* port metadata tables in which no two ports share an alias
CmdPortTables ==
    {t \in UNION {[ps -> {PortEntry(a, r) : a \in {NoName} \cup CmdPorts \cup
                                               {Etp(i) : i \in 1 .. NumAliases},
                                           r \in {"Ext", "Int"}}] :
                    ps \in SUBSET CmdPorts} :
        /\ \A port_name \in DOMAIN t : t[port_name].alias \in AliasChoices(port_name)
        /\ \A p1, p2 \in DOMAIN t : p1 # p2 => t[p1].alias = NoName \/ t[p1].alias # t[p2].alias}

CmdTargets == {NoName, Unknown} \cup CmdPorts \cup {Etp(i) : i \in 1 .. NumAliases}

CmdInit ==
    /\ command \in {"alias", "description", "status", "tpid"}
    /\ naming_mode \in {"default", "alias"}
    /\ port_table \in CmdPortTables
    /\ is_multi_asic = FALSE
    /\ arg_interfacename \in CmdTargets
    /\ arg_namespace \in {NoNs, "asic0"}
    /\ arg_display \in {"all", "frontend"}
    /\ MplsUnused
    /\ TablesUnused
    /\ pc = "command"
    /\ outcome = "running"
    /\ failure = ""
    /\ stdout = <<>>
    /\ calls = <<>>
    /\ tbl_ok = FALSE
    /\ brkout_cfg = EmptyDict
    /\ platform_file = [status |-> "missing", interfaces |-> EmptyDict]
    /\ hwsku_file = [status |-> "missing", interfaces |-> EmptyDict]
    /\ no_speed = {}
    /\ cur_brkout_tbl = EmptyDict
    /\ platform_dict = EmptyDict
    /\ hwsku_dict = EmptyDict
    /\ todo = {}

\* lines 77-80 and 90-93: the row of a port
AliasRow(port_dict, port_name) ==
    IF port_dict[port_name].alias # NoName
    THEN <<port_name, port_dict[port_name].alias>>
    ELSE <<port_name, port_name>>

\* lines 85-93: the rows of every port the display option shows.  Line 88
\* compares the role with multi_asic.INTERNAL_PORT by object identity
\* ('is'): a port is skipped only when its role string is that very object,
\* which an equal string read at run time need not be.  same_object is the
\* set of ports whose role is that object.
AliasListing(port_dict, d, same_object) ==
    LET names == natsorted({port_name \in DOMAIN port_dict :
                              ~(d = "frontend" /\ port_name \in same_object)})
    IN [i \in 1 .. Len(names) |-> AliasRow(port_dict, names[i])]

\* lines 62-95
Alias(same_object) ==
    /\ pc = "command"
    /\ command = "alias"
    /\ same_object \subseteq {port_name \in DOMAIN port_table :
                                 port_table[port_name].role = "Int"}
    /\ LET port_dict == port_table
           conv == try_convert_interfacename_from_alias(arg_interfacename)
           got == Call("get_port_table", arg_namespace, NoName)
       IN
       IF arg_interfacename # NoName
       THEN IF conv.fail
            THEN /\ Fail(CannotFindAlias)
                 /\ calls' = Append(calls, got)
                 /\ UNCHANGED stdout
            ELSE /\ calls' = calls \o <<got, Call("lookup", arg_namespace, conv.name)>>
                 /\ IF conv.name \in DOMAIN port_dict
                    THEN /\ Echo(Table(<<AliasRow(port_dict, conv.name)>>))
                         /\ End("ok")
                    ELSE /\ Fail(InvalidInterfaceName)
                         /\ UNCHANGED stdout
       ELSE /\ calls' = Append(calls, got)
            /\ Echo(Table(AliasListing(port_dict, arg_display, same_object)))
            /\ End("ok")
    /\ UNCHANGED <<env_vars, mpls_vars, breakout_vars>>

\* lines 101-119, 133-150, 156-173: intfutil -c <subcommand>
Intfutil(subcommand) ==
    /\ pc = "command"
    /\ command = subcommand
    /\ LET conv == try_convert_interfacename_from_alias(arg_interfacename)
           cmd == <<"intfutil", "-c", subcommand>>
       IN
       IF arg_interfacename # NoName
       THEN IF conv.fail
            THEN /\ Fail(CannotFindAlias)
                 /\ UNCHANGED <<calls, stdout>>
            ELSE /\ calls' = Append(calls, RunCommand(cmd, conv.name, "", arg_namespace))
                 /\ End("ok")
                 /\ UNCHANGED stdout
       ELSE /\ calls' = Append(calls, RunCommand(cmd, NoName, arg_display, arg_namespace))
            /\ End("ok")
            /\ UNCHANGED stdout
    /\ UNCHANGED <<env_vars, mpls_vars, breakout_vars>>

Description == Intfutil("description")
Status == Intfutil("status")
Tpid == Intfutil("tpid")

CmdNext ==
    \/ \E same_object \in SUBSET CmdPorts : Alias(same_object)
    \/ Description
    \/ Status
    \/ Tpid

SpecCmd == CmdInit /\ [][CmdNext]_vars

(***************************************************************************)
(* Properties of the interface argument                                    *)
(***************************************************************************)
Aliases == {AliasOf(port_name) : port_name \in DOMAIN port_table}
CallsOf(op) == {i \in 1 .. Len(calls) : calls[i].op = op}

\* C8: in alias mode an interface argument that is the alias of no port
\* fails the command in try_convert_interfacename_from_alias: the argument
\* is never looked up in the port table and never given to an external
\* utility, and nothing is printed.
C8_UnknownAliasFailsBeforeUse ==
    (naming_mode = "alias" /\ arg_interfacename # NoName /\ arg_interfacename \notin Aliases) =>
        /\ CallsOf("run_command") = {}
        /\ CallsOf("lookup") = {}
        /\ stdout = <<>>
        /\ pc = "done" => /\ outcome = "usage_error"
                          /\ failure = CannotFindAlias
                          /\ ExitCode(outcome) # 0

C8_Witness ==
    /\ command = "status"
    /\ naming_mode = "alias"
    /\ arg_interfacename = Eth(0)
    /\ Eth(0) \in DOMAIN port_table /\ AliasOf(Eth(0)) = Etp(1)
    /\ pc = "done"
    /\ outcome = "usage_error"

\* C9: in alias mode, for every port P of the port metadata table with
\* alias A (P itself when it has no alias attribute), 'alias A' succeeds
\* and prints exactly the row [P, A].
C9_AliasRoundTrip ==
    (command = "alias" /\ naming_mode = "alias" /\ pc = "done") =>
        \A P \in DOMAIN port_table :
            arg_interfacename = AliasOf(P) =>
                /\ outcome = "ok"
                /\ stdout = <<Table(<< <<P, AliasOf(P)>> >>)>>

(***************************************************************************)
(* A target interface that cannot be resolved, and a malformed command     *)
(* line                                                                    *)
(***************************************************************************)
\* how click ends a command line it cannot parse (an unknown option, a
\* missing argument): a usage error, before the handler runs
MalformedSyntaxOutcome == "usage_error"
NoSuchOption == "No such option"
ClickUsageError ==
    /\ pc \in {"command", "mpls"}
    /\ pc' = "rejected"
    /\ outcome' = MalformedSyntaxOutcome
    /\ failure' = NoSuchOption
    /\ UNCHANGED <<stdout, calls, env_vars, mpls_vars, breakout_vars>>

TargetInit == CmdInit \/ MplsInit
TargetNext ==
    \/ CmdNext
    \/ MplsNext
    \/ ClickUsageError

SpecTarget == TargetInit /\ [][TargetNext]_vars

\* the run was given one interface that cannot be resolved: an unknown
\* alias, a name the port table of 'alias' does not hold, or an interface
\* that none of the namespaces of 'mpls' holds
UnknownAliasRun ==
    /\ command \in {"alias", "description", "status", "tpid", "mpls"}
    /\ naming_mode = "alias"
    /\ arg_interfacename # NoName
    /\ arg_interfacename \notin Aliases
    /\ ~InvalidSingleAsicDisplay
    /\ conn_failed = {}
InvalidNameRun ==
    /\ command = "alias"
    /\ naming_mode = "default"
    /\ arg_interfacename # NoName
    /\ arg_interfacename \notin DOMAIN port_table
MissingFromAllNamespacesRun ==
    /\ command = "mpls"
    /\ ResolvableTarget
    /\ ~InvalidSingleAsicDisplay
    /\ conn_failed = {}
    /\ ns_list = <<>>
    /\ QueriedNs = get_ns_list_based_on_options("all", arg_namespace)
    /\ ~TargetSeen
UnresolvedTargetRun ==
    pc = "done" /\ (UnknownAliasRun \/ InvalidNameRun \/ MissingFromAllNamespacesRun)

\* C12 as the spec states it: a request for one interface that cannot be
\* resolved ends with a non-zero outcome that differs from the outcome of a
\* request with malformed syntax.
C12_UnresolvedDiffersFromSyntaxError ==
    UnresolvedTargetRun =>
        /\ ExitCode(outcome) # 0
        /\ outcome # MalformedSyntaxOutcome
        /\ ExitCode(outcome) # ExitCode(MalformedSyntaxOutcome)

\* C12 amended: a request for one interface that cannot be resolved ends
\* with click's usage error, the outcome and non-zero exit status a
\* malformed command line ends with; the two differ in the message only.
C12_UnresolvedIsUsageError ==
    /\ UnresolvedTargetRun =>
          /\ outcome = "usage_error"
          /\ ExitCode(outcome) # 0
          /\ ExitCode(outcome) = ExitCode(MalformedSyntaxOutcome)
          /\ failure \in {CannotFindAlias, InvalidInterfaceName, DoesNotExist}
          /\ stdout = <<>>
    /\ pc = "rejected" =>
          /\ outcome = MalformedSyntaxOutcome
          /\ failure = NoSuchOption

C12_Witness ==
    /\ UnresolvedTargetRun
    /\ MissingFromAllNamespacesRun
    /\ Len(queried) = 2
    /\ failure = DoesNotExist

(***************************************************************************)
(* show interfaces neighbor expected                                       *)
(***************************************************************************)
BreakoutUnused ==
    /\ tbl_ok = FALSE
    /\ brkout_cfg = EmptyDict
    /\ platform_file = [status |-> "missing", interfaces |-> EmptyDict]
    /\ hwsku_file = [status |-> "missing", interfaces |-> EmptyDict]
    /\ no_speed = {}
    /\ cur_brkout_tbl = EmptyDict
    /\ platform_dict = EmptyDict
    /\ hwsku_dict = EmptyDict
    /\ todo = {}

NeighborPorts == {Eth(0), Eth(4), Eth(8)}
Devices == {"ARISTA01T1", "ARISTA02T1"}
OptionalFields == {"lo_addr", "mgmt_addr", "type"}
\* the sentinel printed for an optional field the metadata record lacks
NoneCell == Text("None")

\* a DEVICE_NEIGHBOR record: 'name' and 'port', either of which may be absent
NeighborRecords ==
    {("name" :> Text(d)) @@ ("port" :> Text("Ethernet1")) : d \in Devices}
    \cup {("name" :> Text("ARISTA01T1")), ("port" :> Text("Ethernet1"))}
\* a DEVICE_NEIGHBOR_METADATA record: any of the optional fields
MetadataRecords(d) ==
    IF d = "ARISTA01T1"
    THEN {[f \in fs |-> Text(f)] : fs \in SUBSET OptionalFields}
    ELSE {[f \in OptionalFields |-> Text(f)]}
NoTable == [present |-> FALSE, rows |-> EmptyDict]
NeighborTables ==
    {NoTable} \cup
    {[present |-> TRUE, rows |-> t] :
        t \in UNION {[ps -> NeighborRecords] : ps \in SUBSET NeighborPorts}}
MetadataTables ==
    {NoTable} \cup
    {[present |-> TRUE, rows |-> t] :
        t \in {m \in UNION {[ds -> UNION {MetadataRecords(d) : d \in Devices}] :
                              ds \in SUBSET {Text(d) : d \in Devices}} :
                 \A d \in DOMAIN m : m[d] \in MetadataRecords(d.s)}}
NeighborPortTables == {t \in MplsPortTables : t[Eth(4)].role = "Ext"}
NeighborTargets == {NoName, Eth(0), Etp(1), Unknown}

NeighborInit ==
    /\ command = "expected"
    /\ naming_mode \in {"default", "alias"}
    /\ port_table \in NeighborPortTables
    /\ is_multi_asic = FALSE
    /\ arg_interfacename \in NeighborTargets
    /\ arg_namespace = NoNs
    /\ arg_display = NoDisplay
    /\ neighbor_tbl \in NeighborTables
    /\ metadata_tbl \in MetadataTables
    /\ tx_state = EmptyDict
    /\ tx_appl = EmptyDict
    /\ MplsUnused
    /\ BreakoutUnused
    /\ pc = "expected"
    /\ outcome = "running"
    /\ failure = ""
    /\ stdout = <<>>
    /\ calls = <<>>

\* lines 296-300: in alias mode every key of neighbor_dict is replaced by
\* its alias, one key after the other
RECURSIVE RenameKeys(_, _)
RenameKeys(neighbor_dict, ports) ==
    IF ports = <<>> THEN neighbor_dict
    ELSE LET temp_port == Head(ports)
             port == name_to_alias(temp_port)
             popped == [k \in DOMAIN neighbor_dict \ {temp_port} |-> neighbor_dict[k]]
         IN RenameKeys(DictSet(popped, port, neighbor_dict[temp_port]), Tail(ports))

\* lines 306-311 and 318-324: the row of a port; error: KeyError was raised
OptionalCell(record, field) == IF field \in DOMAIN record THEN record[field] ELSE NoneCell
NeighborRowStrict(neighbor_dict, neighbor_metadata_dict, port) ==
    IF \/ port \notin DOMAIN neighbor_dict
       \/ {"name", "port"} \ DOMAIN neighbor_dict[port] # {}
       \/ neighbor_dict[port]["name"] \notin DOMAIN neighbor_metadata_dict
       \/ OptionalFields \ DOMAIN neighbor_metadata_dict[neighbor_dict[port]["name"]] # {}
    THEN [error |-> TRUE, row |-> <<>>]
    ELSE LET device == neighbor_dict[port]["name"] IN
         [error |-> FALSE,
          row |-> <<port, device, neighbor_dict[port]["port"],
                    neighbor_metadata_dict[device]["lo_addr"],
                    neighbor_metadata_dict[device]["mgmt_addr"],
                    neighbor_metadata_dict[device]["type"]>>]
NeighborRow(neighbor_dict, neighbor_metadata_dict, port) ==
    IF \/ port \notin DOMAIN neighbor_dict
       \/ "name" \notin DOMAIN neighbor_dict[port]
       \/ "port" \notin DOMAIN neighbor_dict[port]
       \/ neighbor_dict[port]["name"] \notin DOMAIN neighbor_metadata_dict
    THEN [error |-> TRUE, row |-> <<>>]
    ELSE LET device == neighbor_dict[port]["name"] IN
         [error |-> FALSE,
          row |-> <<port, device, neighbor_dict[port]["port"],
                    OptionalCell(neighbor_metadata_dict[device], "lo_addr"),
                    OptionalCell(neighbor_metadata_dict[device], "mgmt_addr"),
                    OptionalCell(neighbor_metadata_dict[device], "type")>>]

\* lines 315-326: the rows of the ports whose row can be built, in natural
\* order
RECURSIVE NeighborBody(_, _, _)
NeighborBody(neighbor_dict, neighbor_metadata_dict, ports) ==
    IF ports = <<>> THEN <<>>
    ELSE LET r == NeighborRow(neighbor_dict, neighbor_metadata_dict, Head(ports))
             rest == NeighborBody(neighbor_dict, neighbor_metadata_dict, Tail(ports))
         IN IF r.error THEN rest ELSE <<r.row>> \o rest

\* lines 283-329
Expected ==
    /\ pc = "expected"
    /\ IF ~neighbor_tbl.present
       THEN /\ calls' = Append(calls, Call("get_table", "DEVICE_NEIGHBOR", NoName))
            /\ Echo(Line("DEVICE_NEIGHBOR information is not present."))
            /\ End("ok")
       ELSE
       /\ calls' = calls \o <<Call("get_table", "DEVICE_NEIGHBOR", NoName),
                              Call("get_table", "DEVICE_NEIGHBOR_METADATA", NoName)>>
       /\ IF ~metadata_tbl.present
          THEN /\ Echo(Line("DEVICE_NEIGHBOR_METADATA information is not present."))
               /\ End("ok")
          ELSE
          LET neighbor_dict ==
                  IF naming_mode = "alias"
                  THEN RenameKeys(neighbor_tbl.rows, natsorted(DOMAIN neighbor_tbl.rows))
                  ELSE neighbor_tbl.rows
              neighbor_metadata_dict == metadata_tbl.rows
          IN
          IF arg_interfacename # NoName
          THEN LET r == NeighborRow(neighbor_dict, neighbor_metadata_dict, arg_interfacename)
               IN IF r.error
                  THEN /\ Echo(Line("No neighbor information available for interface"))
                       /\ End("ok")
                  ELSE /\ Echo(Table(<<r.row>>))
                       /\ End("ok")
          ELSE /\ Echo(Table(NeighborBody(neighbor_dict, neighbor_metadata_dict,
                                          natsorted(DOMAIN neighbor_dict))))
               /\ End("ok")
    /\ UNCHANGED <<env_vars, mpls_vars, breakout_vars>>

NeighborNext == Expected

SpecNeighbor == NeighborInit /\ [][NeighborNext]_vars

\* the ports of DEVICE_NEIGHBOR whose record names a device and a port and
\* whose device has a metadata record
Listable ==
    {port \in DOMAIN neighbor_tbl.rows :
        /\ {"name", "port"} \subseteq DOMAIN neighbor_tbl.rows[port]
        /\ neighbor_tbl.rows[port]["name"] \in DOMAIN metadata_tbl.rows}
FullListing ==
    /\ command = "expected"
    /\ pc = "done"
    /\ arg_interfacename = NoName
    /\ neighbor_tbl.present
    /\ metadata_tbl.present

\* C15: in the listing without a target, every neighbor whose record names
\* a device and a port and whose device has a metadata record is listed, in
\* natural order of the displayed port, also when the metadata record lacks
\* lo_addr, mgmt_addr or type: that column then holds 'None'.  A record
\* whose row cannot be built is left out and the other records are still
\* listed; the run ends well.
C15_MissingFieldListedAsNone ==
    FullListing =>
        /\ outcome = "ok"
        /\ Len(stdout) = 1
        /\ stdout[1].type = "table"
        /\ LET shown == natsorted({DisplayName(port) : port \in Listable})
               rows == stdout[1].body
           IN /\ Len(rows) = Len(shown)
              /\ \A i \in 1 .. Len(rows) :
                    \E port \in Listable :
                        LET record == neighbor_tbl.rows[port]
                            metadata == metadata_tbl.rows[record["name"]]
                        IN /\ shown[i] = DisplayName(port)
                           /\ Len(rows[i]) = 6
                           /\ rows[i][1] = shown[i]
                           /\ rows[i][2] = record["name"]
                           /\ rows[i][3] = record["port"]
                           /\ rows[i][4] = IF "lo_addr" \in DOMAIN metadata
                                           THEN metadata["lo_addr"] ELSE NoneCell
                           /\ rows[i][5] = IF "mgmt_addr" \in DOMAIN metadata
                                           THEN metadata["mgmt_addr"] ELSE NoneCell
                           /\ rows[i][6] = IF "type" \in DOMAIN metadata
                                           THEN metadata["type"] ELSE NoneCell

\* two records are listed, one with a sentinel, while a third is left out
C15_Witness ==
    /\ FullListing
    /\ Cardinality(DOMAIN neighbor_tbl.rows) = 3
    /\ Len(stdout[1].body) = 2
    /\ \E i \in 1 .. 2 : stdout[1].body[i][4] = NoneCell /\ stdout[1].body[i][6] # NoneCell
    /\ \E i \in 1 .. 2 : NoneCell \notin {stdout[1].body[i][j] : j \in 4 .. 6}

(***************************************************************************)
(* show interfaces tx_error                                                *)
(***************************************************************************)
TxPorts == {Eth(0), Eth(4)}
TxStatus == {Text("OK"), Text("NotOK")}
TxStatistics == {Text("0"), Text("1")}
TxTargets == TxPorts \cup {Unknown}

TxErrorInit ==
    /\ command = "tx_error"
    /\ naming_mode = "default"
    /\ port_table = EmptyDict
    /\ is_multi_asic = FALSE
    /\ arg_interfacename \in TxTargets
    /\ arg_namespace = NoNs
    /\ arg_display = NoDisplay
    /\ neighbor_tbl = NoTable
    /\ metadata_tbl = NoTable
    /\ tx_state \in UNION {[ps -> TxStatus] : ps \in SUBSET TxPorts}
    /\ tx_appl \in UNION {[ps -> TxStatistics] : ps \in SUBSET TxPorts}
    /\ MplsUnused
    /\ BreakoutUnused
    /\ pc = "tx_error"
    /\ outcome = "running"
    /\ failure = ""
    /\ stdout = <<>>
    /\ calls = <<>>

\* the orders in which state_db.keys may return the keys of a table
KeyOrders(S) ==
    {order \in UNION {[1 .. n -> S] : n \in {Cardinality(S)}} :
        \A i, j \in 1 .. Len(order) : i # j => order[i] # order[j]}

\* lines 819-830: the row of one key of TX_ERR_STATE
TxErrorRow(k) ==
    <<k, tx_state[k], IF k \notin DOMAIN tx_appl THEN Text("") ELSE tx_appl[k]>>

\* lines 801-834; interfacename is not used
TxError(txerr_keys) ==
    /\ pc = "tx_error"
    /\ txerr_keys \in KeyOrders(DOMAIN tx_state)
    /\ calls' = calls \o <<Call("keys", "STATE_DB", NoName), Call("keys", "APPL_DB", NoName)>>
    /\ Echo(Table([i \in 1 .. Len(txerr_keys) |-> TxErrorRow(txerr_keys[i])]))
    /\ End("ok")
    /\ UNCHANGED <<env_vars, mpls_vars, breakout_vars>>

TxErrorNext ==
    \E txerr_keys \in UNION {KeyOrders(S) : S \in SUBSET TxPorts} : TxError(txerr_keys)

SpecTxError == TxErrorInit /\ [][TxErrorNext]_vars

\* C16: 'show interfaces tx_error <interface>' ends well and prints a table
\* with exactly one row, the requested interface's: its tx_status of
\* TX_ERR_STATE and its statistics of TX_ERR_APPL (empty when absent); no
\* row of another port is printed.
C16_OnlyRequestedRow ==
    (command = "tx_error" /\ pc = "done" /\ arg_interfacename \in DOMAIN tx_state) =>
        /\ outcome = "ok"
        /\ Len(stdout) = 1
        /\ stdout[1].type = "table"
        /\ stdout[1].body =
              << <<arg_interfacename,
                   tx_state[arg_interfacename],
                   IF arg_interfacename \in DOMAIN tx_appl
                   THEN tx_appl[arg_interfacename] ELSE Text("")>> >>

====
